---- MODULE Spec2Model ----
(***************************************************************************)
(* Single-player Pong (src/Pong/main.cpp): the frame loop of main(), the   *)
(* Game's input, collision, scoring and AI handlers, the paddle and ball   *)
(* integration and the trajectory predictor.                               *)
(*                                                                         *)
(* The program's floats are fixed-point integers here: a position or a     *)
(* length is in 1/PX pixel, a versor component in 1/VS, a speed in 1/PX    *)
(* pixel per second, a frame time in milliseconds.  A division truncates   *)
(* toward zero.                                                            *)
(***************************************************************************)
EXTENDS Integers, FiniteSets, Sequences, TLC

VARIABLES
    leftPaddle,         \* Game::leftPaddle  [x, y, vx, vy]
    rightPaddle,        \* Game::rightPaddle [x, y, vx, vy]
    ball,               \* Game::ball        [x, y, vx, vy, speed]
    scoreLeft,          \* ScoreText::scoreLeft
    scoreRight,         \* ScoreText::scoreRight
    activeKey,          \* static of getCurrentVerticalKey
    predictedY,         \* static of handleAIPaddleMovement
    lastFrameBallDirX,  \* static of handleAIPaddleMovement
    aiStaticsDone,      \* whether handleAIPaddleMovement's statics are initialised
    pc,                 \* position in the loop of main(), or in a predictor run
    frame,              \* frames completed since the game was (re)started
    lags,               \* lag spikes among them
    keys,               \* history: the key states polled by the last readInput
    newest,             \* history: the key that became held most recently
    currentKey,         \* history: what getCurrentVerticalKey returned last
    last,               \* history: what the last update fired
    targetX,            \* predictor runs: the argument of predictBallY
    crossY,             \* predictor runs: y at which the simulated ball crossed targetX
    bounces             \* predictor runs: wall bounces of the simulated ball

vars == << leftPaddle, rightPaddle, ball, scoreLeft, scoreRight, activeKey,
           predictedY, lastFrameBallDirX, aiStaticsDone, pc, frame, lags, keys,
           newest, currentKey, last, targetX, crossY, bounces >>

----------------------------------------------------------------------------
(* Representation *)

PX == 100
VS == 1000

Abs(a) == IF a < 0 THEN -a ELSE a

\* float division, truncated toward zero
Div(a, b) ==
    IF (a >= 0) = (b > 0) THEN Abs(a) \div Abs(b) ELSE -(Abs(a) \div Abs(b))

RECURSIVE SqrtIter(_, _)
SqrtIter(n, g) ==
    LET h == (g + n \div g) \div 2
    IN  IF h >= g THEN g ELSE SqrtIter(n, h)

\* std::sqrt, rounded down (Newton's iteration from a power of two above the root)
RECURSIVE Above(_, _)
Above(n, g) == IF g > n \div g THEN g ELSE Above(n, 2 * g)

Sqrt(n) == IF n = 0 THEN 0 ELSE SqrtIter(n, Above(n, 1))

\* fmod: the remainder has the sign of the dividend
Fmod(a, p) == IF a >= 0 THEN a % p ELSE -((-a) % p)

----------------------------------------------------------------------------
(* Program constants *)

screenWidth  == 800 * PX
screenHeight == 450 * PX

UP    == -1
DOWN  == 1
LEFT  == -1
RIGHT == 1
NONE  == 0

KEY_UP   == 265
KEY_DOWN == 264
NoKey    == -1

paddleSize   == [x |-> 10 * PX, y |-> 100 * PX]
paddleSpeed  == 300 * PX
ballRadius   == 7 * PX
baseSpeed    == 400 * PX
leftPaddleStart  == [x |-> 50 * PX, y |-> screenHeight \div 2 - 50 * PX]
rightPaddleStart == [x |-> screenWidth - 50 * PX, y |-> screenHeight \div 2 - 50 * PX]
ballStart        == [x |-> screenWidth \div 2, y |-> screenHeight \div 2]

----------------------------------------------------------------------------
(* Inputs of a run *)

\* A run is followed for MaxFrames frames after a (re)start while every frame is
\* regular, and for MaxLagFrames frames once it holds a lag spike; it holds at
\* most MaxLags of them.
MaxFrames    == 60
MaxLagFrames == 15
MaxLags      == 1

\* GetFrameTime(), in milliseconds: a regular frame (20 fps) and a lag spike
DeltaTimes == {50, 500}
IsLagSpike(dt) == dt > 2 * 50

\* outcomes of GetRandomValue(-1000, 1000)
RandomValues == {0, -400}

----------------------------------------------------------------------------
(* GameObject *)

\* GameObject::normaliseVersor: the unit vector of (vx, vy), in 1/VS
normaliseVersor(vx, vy) ==
    LET len == Sqrt(vx * vx + vy * vy)
    IN  IF len = 0 THEN [x |-> 0, y |-> 0]
        ELSE [x |-> Div(vx * VS, len), y |-> Div(vy * VS, len)]

\* normaliseVersor(versor) * speed * deltaTime
Displacement(vx, vy, speed, dt) ==
    LET n == normaliseVersor(vx, vy)
    IN  [x |-> Div(Div(n.x * speed, VS) * dt, 1000),
         y |-> Div(Div(n.y * speed, VS) * dt, 1000)]

\* GameObject::update
GameObjectUpdate(obj, dt) ==
    LET d == Displacement(obj.vx, obj.vy, obj.speed, dt)
    IN  [obj EXCEPT !.x = @ + d.x, !.y = @ + d.y]

\* GameObject::pointTowards
pointTowards(obj, target) ==
    LET n == normaliseVersor(target.x - obj.x, target.y - obj.y)
    IN  [obj EXCEPT !.vx = n.x, !.vy = n.y]

----------------------------------------------------------------------------
(* Paddle *)

\* Paddle::getCenter
getCenter(p) == [x |-> p.x + paddleSize.x \div 2, y |-> p.y + paddleSize.y \div 2]

\* Paddle::update testing the paddle's origin only, not its far edges
PaddleUpdateOriginOnly(p, dt) ==
    LET delta == Displacement(p.vx, p.vy, paddleSpeed, dt)
        newX  == p.x + delta.x
        newY  == p.y + delta.y
    IN  [p EXCEPT
           !.y = IF newY >= 0 /\ newY <= screenHeight THEN newY ELSE @,
           !.x = IF newX >= 0 /\ newX <= screenWidth  THEN newX ELSE @]

\* Paddle::update
PaddleUpdate(p, dt) ==
    LET delta == Displacement(p.vx, p.vy, paddleSpeed, dt)
        newX  == p.x + delta.x
        newY  == p.y + delta.y
    IN  [p EXCEPT
           !.y = IF newY >= 0 /\ newY + paddleSize.y <= screenHeight THEN newY ELSE @,
           !.x = IF newX >= 0 /\ newX + paddleSize.x <= screenWidth  THEN newX ELSE @]

\* raylib's CheckCollisionCircleRec on the ball and the paddle's rectangle
CheckCollisionCircleRec(b, p) ==
    LET c  == getCenter(p)
        dx == Abs(b.x - c.x)
        dy == Abs(b.y - c.y)
        hw == paddleSize.x \div 2
        hh == paddleSize.y \div 2
    IN  IF dx > hw + ballRadius THEN FALSE
        ELSE IF dy > hh + ballRadius THEN FALSE
        ELSE IF dx <= hw THEN TRUE
        ELSE IF dy <= hh THEN TRUE
        ELSE (dx - hw) * (dx - hw) + (dy - hh) * (dy - hh) <= ballRadius * ballRadius

----------------------------------------------------------------------------
(* Game: collisions and scoring *)

\* the speed a paddle hit adds, without the fabs
SpeedGainSigned(speed, vy) ==
    Div(Div(20 * PX * Div(speed * VS, baseSpeed), VS) * vy, VS)

\* the speed a paddle hit adds: 20 * (speed / 400) * fabs(versor.y)
SpeedGain(speed, vy) ==
    Div(Div(20 * PX * Div(speed * VS, baseSpeed), VS) * Abs(vy), VS)

\* Game::handlePaddleBallCollision storing the reflected versor normalised
handlePaddleBallCollisionNormalised(b, p) ==
    IF CheckCollisionCircleRec(b, p)
    THEN LET vy == Div((b.y - getCenter(p).y) * VS, paddleSize.y \div 2)
             n  == normaliseVersor(-b.vx, vy)
         IN  [b EXCEPT !.vx = n.x, !.vy = n.y,
                       !.speed = @ + Div(Div(20 * PX * Div(@ * VS, baseSpeed), VS) * Abs(vy), VS)]
    ELSE b

\* Game::handlePaddleBallCollision
handlePaddleBallCollision(b, p) ==
    IF CheckCollisionCircleRec(b, p)
    THEN LET vy == Div((b.y - getCenter(p).y) * VS, paddleSize.y \div 2)
         IN  [b EXCEPT !.vx = -@, !.vy = vy, !.speed = @ + SpeedGain(@, vy)]
    ELSE b

\* the conditions of Game::handleWallBallCollision
AtTopWall(b)    == b.y - ballRadius <= 0
AtBottomWall(b) == b.y + ballRadius >= screenHeight

\* Game::handleWallBallCollision
handleWallBallCollision(b) ==
    IF AtTopWall(b) \/ AtBottomWall(b) THEN [b EXCEPT !.vy = -@] ELSE b

\* the conditions of Game::handlePointScoring
AtRightEdge(b) == b.x + ballRadius >= screenWidth
AtLeftEdge(b)  == b.x - ballRadius <= 0

\* Game::handlePointScoring with the two scores exchanged
PointScoredSwapped(b) ==
    IF AtRightEdge(b) THEN "right" ELSE IF AtLeftEdge(b) THEN "left" ELSE "none"

\* Game::handlePointScoring: the side that scores, if any
PointScored(b) ==
    IF AtRightEdge(b) THEN "left" ELSE IF AtLeftEdge(b) THEN "right" ELSE "none"

\* Game::randomValidVersor on GetRandomValue's outcome rnd
randomValidVersor(rnd) == IF rnd = 0 THEN -VS ELSE rnd

\* the ball resetRound and resetGame serve
ServedBall(rnd) ==
    [x |-> ballStart.x, y |-> ballStart.y,
     vx |-> RIGHT * VS, vy |-> randomValidVersor(rnd), speed |-> baseSpeed]

----------------------------------------------------------------------------
(* Game: the AI paddle *)

\* Game::predictBallY, step 1: the raw straight-line intersection
RawIntersection(b, tX) ==
    LET dx == tX - b.x
        dy == Div(dx * Div(b.vy * VS, b.vx), VS)
    IN  b.y + dy

\* Game::predictBallY without the correction of a negative fmod
predictBallYNoWrap(b, tX) ==
    LET y_raw  == RawIntersection(b, tX)
        period == 2 * screenHeight
        y_mod  == Fmod(y_raw, period)
    IN  IF y_mod <= screenHeight THEN y_mod ELSE period - y_mod

\* Game::predictBallY
predictBallY(b, tX) ==
    LET y_raw  == RawIntersection(b, tX)
        period == 2 * screenHeight
        y_mod  == Fmod(y_raw, period)
        y_pos  == IF y_mod < 0 THEN y_mod + period ELSE y_mod
    IN  IF y_pos <= screenHeight THEN y_pos ELSE period - y_pos

\* predictBallY(rightPaddle.position.x + size.x / 2) - size.y / 2
Prediction(b, rp) ==
    predictBallY(b, rp.x + paddleSize.x \div 2) - paddleSize.y \div 2

\* the statics of handleAIPaddleMovement after their first-call initialisation
AIStatics(ai, b, rp) ==
    IF ai.done THEN ai
    ELSE [predictedY |-> Prediction(b, rp), lastDir |-> LEFT, done |-> TRUE]

\* Game::handleAIPaddleMovement(true): the statics (a first call initialises
\* them and the reset branch then overwrites both)
AIReset(b, rp) ==
    [predictedY |-> Prediction(b, rp), lastDir |-> Div(b.vx, VS), done |-> TRUE]

\* Game::handleAIPaddleMovement(false) predicting in every frame the ball
\* heads RIGHT
AISteerStaticsEveryFrame(ai, b, rp) ==
    LET a == AIStatics(ai, b, rp)
    IN  [predictedY |-> IF b.vx = RIGHT * VS
                        THEN Prediction(b, rp) ELSE a.predictedY,
         lastDir    |-> IF b.vx # LEFT * VS THEN RIGHT ELSE LEFT,
         done       |-> TRUE]

\* Game::handleAIPaddleMovement(false): the statics
AISteerStatics(ai, b, rp) ==
    LET a == AIStatics(ai, b, rp)
    IN  [predictedY |-> IF a.lastDir = LEFT /\ b.vx = RIGHT * VS
                        THEN Prediction(b, rp) ELSE a.predictedY,
         lastDir    |-> IF b.vx # LEFT * VS THEN RIGHT ELSE LEFT,
         done       |-> TRUE]

\* Game::handleAIPaddleMovement(false): the right paddle, given the statics
\* the call leaves
AISteerPaddle(py, b, rp) ==
    IF b.vx = LEFT * VS
    THEN pointTowards(rp, [x |-> rp.x, y |-> screenHeight \div 2 - paddleSize.y \div 2])
    ELSE pointTowards(rp, [x |-> rp.x, y |-> py])

----------------------------------------------------------------------------
(* Game: input *)

\* Game::getCurrentVerticalKey returning activeKey while both keys are held
getCurrentVerticalKeyFirstWins(upPressed, downPressed, active) ==
    IF ~upPressed /\ ~downPressed
    THEN [key |-> NoKey, active |-> NoKey]
    ELSE IF upPressed # downPressed
    THEN [key    |-> IF upPressed THEN KEY_UP ELSE KEY_DOWN,
          active |-> IF upPressed THEN KEY_UP ELSE KEY_DOWN]
    ELSE [key |-> active, active |-> active]

\* Game::getCurrentVerticalKey: the key returned and the static activeKey
getCurrentVerticalKey(upPressed, downPressed, active) ==
    IF ~upPressed /\ ~downPressed
    THEN [key |-> NoKey, active |-> NoKey]
    ELSE IF upPressed # downPressed
    THEN [key    |-> IF upPressed THEN KEY_UP ELSE KEY_DOWN,
          active |-> IF upPressed THEN KEY_UP ELSE KEY_DOWN]
    ELSE [key |-> IF active = KEY_UP THEN KEY_DOWN ELSE KEY_UP, active |-> active]

\* the switch of Game::readInput
SteerLeftPaddle(p, key) ==
    IF key = KEY_UP THEN [p EXCEPT !.vy = UP * VS]
    ELSE IF key = KEY_DOWN THEN [p EXCEPT !.vy = DOWN * VS]
    ELSE [p EXCEPT !.vx = NONE, !.vy = NONE]

\* history: which held key became held more recently (NoKey: neither, or both at once)
Newest(upPressed, downPressed) ==
    IF upPressed /\ downPressed
    THEN IF keys.up /\ keys.down THEN newest
         ELSE IF keys.down THEN KEY_UP
         ELSE IF keys.up THEN KEY_DOWN
         ELSE NoKey
    ELSE IF upPressed THEN KEY_UP
    ELSE IF downPressed THEN KEY_DOWN
    ELSE NoKey

\* history: what the last update fired (each paddle's collision, a wall's,
\* the number of round resets), whether it discarded a paddle's movement, its
\* frame time, and whether resetGame ran since
NothingFired ==
    [left |-> FALSE, right |-> FALSE, wall |-> "none", resets |-> 0,
     blocked |-> FALSE, dt |-> 0, full |-> FALSE]

\* history: Paddle::update discards a movement of paddle p
Discards(p, dt) ==
    LET delta == Displacement(p.vx, p.vy, paddleSpeed, dt)
        q     == PaddleUpdate(p, dt)
    IN  (delta.y # 0 /\ q.y = p.y) \/ (delta.x # 0 /\ q.x = p.x)

----------------------------------------------------------------------------
(* The game: main()'s loop of readInput and update *)

\* Game::init, before the first frame
Init ==
    /\ \E rnd \in RandomValues : ball = ServedBall(rnd)
    /\ leftPaddle  = [x |-> leftPaddleStart.x,  y |-> leftPaddleStart.y,
                      vx |-> NONE, vy |-> NONE]
    /\ rightPaddle = [x |-> rightPaddleStart.x, y |-> rightPaddleStart.y,
                      vx |-> NONE, vy |-> NONE]
    /\ scoreLeft = 0
    /\ scoreRight = 0
    /\ activeKey = NoKey
    /\ predictedY = 0
    /\ lastFrameBallDirX = LEFT
    /\ aiStaticsDone = FALSE
    /\ pc = "readInput"
    /\ frame = 0
    /\ lags = 0
    /\ keys = [up |-> FALSE, down |-> FALSE]
    /\ newest = NoKey
    /\ currentKey = NoKey
    /\ last = NothingFired
    /\ targetX = 0
    /\ crossY = 0
    /\ bounces = 0

\* Game::readInput with KEY_R not pressed
ReadInput(upPressed, downPressed) ==
    /\ pc = "readInput"
    /\ frame < (IF lags = 0 THEN MaxFrames ELSE MaxLagFrames)
    /\ LET k == getCurrentVerticalKey(upPressed, downPressed, activeKey)
       IN  /\ activeKey' = k.active
           /\ currentKey' = k.key
           /\ leftPaddle' = SteerLeftPaddle(leftPaddle, k.key)
    /\ keys' = [up |-> upPressed, down |-> downPressed]
    /\ newest' = Newest(upPressed, downPressed)
    /\ pc' = "update"
    /\ UNCHANGED << rightPaddle, ball, scoreLeft, scoreRight, predictedY,
                    lastFrameBallDirX, aiStaticsDone, frame, lags, last,
                    targetX, crossY, bounces >>

\* Game::readInput with KEY_R pressed: the switch, then Game::resetGame
ReadInputReset(upPressed, downPressed, rnd) ==
    /\ pc = "readInput"
    /\ LET k  == getCurrentVerticalKey(upPressed, downPressed, activeKey)
           lp == SteerLeftPaddle(leftPaddle, k.key)
           rp == [rightPaddle EXCEPT !.x = rightPaddleStart.x, !.y = rightPaddleStart.y]
           b  == ServedBall(rnd)
           ai == AIReset(b, rp)
       IN  /\ activeKey' = k.active
           /\ currentKey' = k.key
           /\ leftPaddle' = [lp EXCEPT !.x = leftPaddleStart.x, !.y = leftPaddleStart.y]
           /\ rightPaddle' = rp
           /\ ball' = b
           /\ predictedY' = ai.predictedY
           /\ lastFrameBallDirX' = ai.lastDir
           /\ aiStaticsDone' = ai.done
    /\ scoreLeft' = 0
    /\ scoreRight' = 0
    /\ keys' = [up |-> upPressed, down |-> downPressed]
    /\ newest' = Newest(upPressed, downPressed)
    /\ last' = [NothingFired EXCEPT !.full = TRUE]
    /\ frame' = 0
    /\ lags' = 0
    /\ pc' = "update"
    /\ UNCHANGED << targetX, crossY, bounces >>

\* Game::update(deltaTime); rnd is GetRandomValue's outcome in resetRound
Update(dt, rnd) ==
    /\ pc = "update"
    /\ IsLagSpike(dt) => lags < MaxLags /\ frame < MaxLagFrames
    /\ lags' = IF IsLagSpike(dt) THEN lags + 1 ELSE lags
    /\ LET b1    == handlePaddleBallCollision(ball, leftPaddle)
           b2    == handlePaddleBallCollision(b1, rightPaddle)
           b3    == handleWallBallCollision(b2)
           score == PointScored(b3)
           b4    == IF score = "none" THEN b3 ELSE ServedBall(rnd)
           ai0   == [predictedY |-> predictedY, lastDir |-> lastFrameBallDirX,
                     done |-> aiStaticsDone]
           ai1   == IF score = "none" THEN ai0 ELSE AIReset(b4, rightPaddle)
           ai2   == AISteerStatics(ai1, b4, rightPaddle)
           rp    == AISteerPaddle(ai2.predictedY, b4, rightPaddle)
       IN  /\ scoreLeft'  = IF score = "left"  THEN scoreLeft + 1  ELSE scoreLeft
           /\ scoreRight' = IF score = "right" THEN scoreRight + 1 ELSE scoreRight
           /\ predictedY' = ai2.predictedY
           /\ lastFrameBallDirX' = ai2.lastDir
           /\ aiStaticsDone' = ai2.done
           /\ leftPaddle'  = PaddleUpdate(leftPaddle, dt)
           /\ rightPaddle' = PaddleUpdate(rp, dt)
           /\ ball' = GameObjectUpdate(b4, dt)
           /\ last' = [left   |-> b1 # ball,
                       right  |-> b2 # b1,
                       wall   |-> IF AtTopWall(b2) THEN "top"
                                  ELSE IF AtBottomWall(b2) THEN "bottom" ELSE "none",
                       resets |-> IF score = "none" THEN 0 ELSE 1,
                       blocked |-> Discards(leftPaddle, dt) \/ Discards(rp, dt),
                       dt     |-> dt,
                       full   |-> FALSE]
    /\ frame' = frame + 1
    /\ pc' = "readInput"
    /\ UNCHANGED << activeKey, keys, newest, currentKey, targetX, crossY, bounces >>

\* whether this frame's update will run resetRound
Scoring == AtRightEdge(ball) \/ AtLeftEdge(ball)

Next ==
    \/ \E upPressed, downPressed \in BOOLEAN : ReadInput(upPressed, downPressed)
    \/ \E upPressed, downPressed \in BOOLEAN : \E rnd \in RandomValues :
          ReadInputReset(upPressed, downPressed, rnd)
    \/ \E dt \in DeltaTimes : \E rnd \in (IF Scoring THEN RandomValues ELSE {0}) :
          Update(dt, rnd)

Spec == Init /\ [][Next]_vars

----------------------------------------------------------------------------
(* The trajectory predictor on its own *)

\* the variables the predictor runs leave alone
gameVars == << leftPaddle, rightPaddle, scoreLeft, scoreRight, activeKey,
               lastFrameBallDirX, aiStaticsDone, frame, lags, keys, newest,
               currentKey, last >>

InitRest ==
    /\ leftPaddle  = [x |-> leftPaddleStart.x,  y |-> leftPaddleStart.y,
                      vx |-> NONE, vy |-> NONE]
    /\ rightPaddle = [x |-> rightPaddleStart.x, y |-> rightPaddleStart.y,
                      vx |-> NONE, vy |-> NONE]
    /\ scoreLeft = 0
    /\ scoreRight = 0
    /\ activeKey = NoKey
    /\ lastFrameBallDirX = LEFT
    /\ aiStaticsDone = FALSE
    /\ frame = 0
    /\ lags = 0
    /\ keys = [up |-> FALSE, down |-> FALSE]
    /\ newest = NoKey
    /\ currentKey = NoKey
    /\ crossY = 0
    /\ bounces = 0

\* the balls and target lines predictBallY is applied to (pixels, versors in 1/VS)
PredictXs       == {0, 67, 400, 740, 790}
PredictYs       == {-20, 7, 225, 443, 470}
PredictVXs      == {-1000, -500, 500, 1000}
PredictVYs      == {-3000, -1140, -1000, -1, 0, 400, 1000, 3000}
PredictTargets  == {55, 755}

InitPredict ==
    /\ InitRest
    /\ \E x \in PredictXs, y \in PredictYs, vx \in PredictVXs, vy \in PredictVYs :
          ball = [x |-> x * PX, y |-> y * PX, vx |-> vx, vy |-> vy, speed |-> baseSpeed]
    /\ \E t \in PredictTargets : targetX = t * PX
    /\ last = NothingFired
    /\ predictedY = 0
    /\ pc = "predict"

\* one call of Game::predictBallY(targetX)
Predict ==
    /\ pc = "predict"
    /\ predictedY' = predictBallY(ball, targetX)
    /\ pc' = "predicted"
    /\ UNCHANGED << ball, targetX, crossY, bounces >>
    /\ UNCHANGED gameVars

NextPredict == Predict

SpecPredict == InitPredict /\ [][NextPredict]_vars

----------------------------------------------------------------------------
(* The predictor against the ball advanced frame by frame *)

\* served and returned balls heading RIGHT (pixels, versors in 1/VS)
SimXs  == {67, 400}
SimYs  == {100, 225, 350}
SimVYs == {-1140, -1000, -400, 0, 400, 1000}

\* the frame time of a simulated run, in milliseconds (100 fps and 20 fps)
SimDeltaTimes == {10, 50}

\* the centre line of the right paddle, the argument handleAIPaddleMovement passes
AITargetX == rightPaddleStart.x + paddleSize.x \div 2

InitSim ==
    /\ InitRest
    /\ \E x \in SimXs, y \in SimYs, vy \in SimVYs :
          ball = [x |-> x * PX, y |-> y * PX, vx |-> RIGHT * VS, vy |-> vy,
                  speed |-> baseSpeed]
    /\ targetX = AITargetX
    /\ \E dt \in SimDeltaTimes : last = [NothingFired EXCEPT !.dt = dt]
    /\ predictedY = predictBallY(ball, targetX)
    /\ pc = "sim"

\* the y at which the segment from a to b crosses the line x = tX
CrossingY(a, b, tX) == a.y + Div((b.y - a.y) * (tX - a.x), b.x - a.x)

\* one frame of the ball alone: handleWallBallCollision, then GameObject::update
\* with the run's frame time
SimStep(dt) ==
    /\ pc = "sim"
    /\ LET b1 == handleWallBallCollision(ball)
           b2 == GameObjectUpdate(b1, dt)
       IN  /\ ball' = b2
           /\ bounces' = IF b1 # ball THEN bounces + 1 ELSE bounces
           /\ IF b2.x >= targetX
              THEN /\ crossY' = CrossingY(b1, b2, targetX)
                   /\ pc' = "crossed"
              ELSE /\ UNCHANGED crossY
                   /\ pc' = "sim"
    /\ UNCHANGED << targetX, predictedY >>
    /\ UNCHANGED gameVars

NextSim == SimStep(last.dt)

SpecSim == InitSim /\ [][NextSim]_vars

----------------------------------------------------------------------------
(* Properties *)

\* C1: the AI paddle is unbeatable: the ball's right edge never reaches
\* x = screenWidth and the left score is never incremented.
AIUnbeatable == ~AtRightEdge(ball) /\ scoreLeft = 0

PaddleContained(p) ==
    /\ 0 <= p.y /\ p.y + paddleSize.y <= screenHeight
    /\ 0 <= p.x /\ p.x + paddleSize.x <= screenWidth

\* paddle p, steered as q is, became q in a frame of dt: an axis whose new
\* coordinate would leave the screen keeps its coordinate
BlockedAxisKept(p, q, dt) ==
    LET delta == Displacement(q.vx, q.vy, paddleSpeed, dt)
    IN  /\ (p.y + delta.y < 0 \/ p.y + delta.y + paddleSize.y > screenHeight)
              => q.y = p.y
        /\ (p.x + delta.x < 0 \/ p.x + delta.x + paddleSize.x > screenWidth)
              => q.x = p.x

\* C2: both paddle rectangles lie within the screen in every state (after
\* every Paddle::update and resetGame), and an update whose new position would
\* leave the bounds on an axis leaves that axis's coordinate unchanged.
PaddleContainment ==
    /\ [](PaddleContained(leftPaddle) /\ PaddleContained(rightPaddle))
    /\ [][pc = "update" =>
            /\ BlockedAxisKept(leftPaddle, leftPaddle', last'.dt)
            /\ BlockedAxisKept(rightPaddle, rightPaddle', last'.dt)]_vars

\* an update discarded a paddle's movement at the screen's edge
PaddleBlocked == pc = "readInput" /\ last.blocked

\* this frame ran resetRound once: the ball is the served ball after one
\* integration step from the screen centre, at the base speed
RoundWasReset ==
    /\ last'.resets = 1
    /\ ball'.speed = baseSpeed
    /\ ball'.vx = RIGHT * VS
    /\ Abs(ball'.x - ballStart.x) * 1000 <= baseSpeed * last'.dt
    /\ Abs(ball'.y - ballStart.y) * 1000 <= baseSpeed * last'.dt

\* C3: a frame with the ball's edge at or past x = screenWidth adds exactly 1
\* to the left score, one with it at or before x = 0 adds exactly 1 to the
\* right score, each leaving the other score alone and running exactly one
\* round reset; every other frame leaves both scores alone, readInput changes
\* them only by a full reset to 0 - 0; and after a scoring frame whose frame
\* time is too short for the served ball to reach an edge, the ball is at no
\* edge, so the next frame does not score again.
ScoringOncePerCrossing ==
    [][/\ (pc = "update" /\ AtRightEdge(ball)) =>
             /\ scoreLeft' = scoreLeft + 1
             /\ scoreRight' = scoreRight
             /\ RoundWasReset
       /\ (pc = "update" /\ ~AtRightEdge(ball) /\ AtLeftEdge(ball)) =>
             /\ scoreRight' = scoreRight + 1
             /\ scoreLeft' = scoreLeft
             /\ RoundWasReset
       /\ (pc = "update" /\ ~AtRightEdge(ball) /\ ~AtLeftEdge(ball)) =>
             /\ scoreLeft' = scoreLeft
             /\ scoreRight' = scoreRight
             /\ last'.resets = 0
       /\ pc = "readInput" =>
             \/ scoreLeft' = scoreLeft /\ scoreRight' = scoreRight
             \/ last'.full /\ scoreLeft' = 0 /\ scoreRight' = 0
       /\ (/\ pc = "update"
           /\ last'.resets = 1
           /\ baseSpeed * last'.dt < (screenWidth \div 2 - ballRadius) * 1000) =>
             ~AtRightEdge(ball') /\ ~AtLeftEdge(ball')
      ]_vars

\* the right player scored in the last frame
RightPlayerScored == pc = "readInput" /\ scoreRight = 1 /\ last.resets = 1

\* C4: the ball's speed is at least the base speed in every state; a frame
\* without a round reset never lowers it and changes it only when a paddle
\* was hit; a round reset and a full reset set it to exactly the base speed.
SpeedNeverDecreases ==
    /\ [](ball.speed >= baseSpeed)
    /\ [][/\ (pc = "update" /\ ~Scoring) =>
                /\ ball'.speed >= ball.speed
                /\ (~last'.left /\ ~last'.right) => ball'.speed = ball.speed
          /\ (pc = "update" /\ Scoring) => ball'.speed = baseSpeed
          /\ pc = "readInput" =>
                ball'.speed = IF last'.full THEN baseSpeed ELSE ball.speed
         ]_vars

\* a paddle hit has raised the ball's speed
BallSpedUp == ball.speed > baseSpeed

\* C5: predictBallY returns a value in [0, screenHeight].
PredictionInRange ==
    pc = "predicted" => 0 <= predictedY /\ predictedY <= screenHeight

\* predictBallY folded a raw intersection more than a period below the screen
FoldedPrediction ==
    pc = "predicted" /\ RawIntersection(ball, targetX) < -2 * screenHeight

\* the tolerance of the comparison of the predictor with the simulation
Tolerance == 2 * PX

\* C6: the y at which the ball, advanced frame by frame, crosses targetX
\* equals what predictBallY returned at the start, within the tolerance.
PredictorMatchesSimulation ==
    pc = "crossed" => Abs(crossY - predictedY) <= Tolerance

\* what the simulation does show: agreement without a wall bounce, and a
\* difference of at most the ball's diameter per bounce
SimulationWithinDiameters ==
    pc = "crossed" =>
        Abs(crossY - predictedY) <= Tolerance + 2 * ballRadius * bounces

\* C7: getCurrentVerticalKey returns the held key when exactly one is held,
\* the key that became held more recently when both are held, and keeps
\* returning it while both stay held; with neither held it returns -1 and the
\* left paddle's versor is (0, 0).
LastPressedWins ==
    /\ [](/\ (keys.up /\ ~keys.down) => currentKey = KEY_UP
          /\ (keys.down /\ ~keys.up) => currentKey = KEY_DOWN
          /\ (keys.up /\ keys.down /\ newest # NoKey) => currentKey = newest
          /\ (~keys.up /\ ~keys.down) =>
                currentKey = NoKey /\ leftPaddle.vx = NONE /\ leftPaddle.vy = NONE)
    /\ [][(keys.up /\ keys.down /\ keys'.up /\ keys'.down) =>
             currentKey' = currentKey]_vars

\* both keys are held, DOWN was pressed last and is the key returned
NewestOfBothReturned ==
    keys.up /\ keys.down /\ newest = KEY_DOWN /\ currentKey = KEY_DOWN

\* C8: a paddle or a wall whose collision fired in a frame does not fire
\* again in the next frame.
NoRetrigger ==
    [][pc = "update" =>
          /\ last.left => ~last'.left
          /\ last.right => ~last'.right
          /\ last.wall # "none" => last'.wall # last.wall]_vars

\* C9: predictedY changes only in a frame in which the ball's horizontal
\* direction was LEFT at the previous AI step and is RIGHT now, or by a round
\* or full reset; every frame steers the right paddle toward the cached
\* prediction when the ball heads RIGHT and toward the vertical screen centre
\* when it heads LEFT.
OneShotPrediction ==
    [][/\ predictedY' # predictedY =>
             \/ /\ pc = "update"
                /\ \/ lastFrameBallDirX = LEFT /\ ball'.vx = RIGHT * VS
                   \/ Scoring
             \/ pc = "readInput" /\ last'.full
       /\ pc = "update" =>
             LET targetY == IF ball'.vx = LEFT * VS
                            THEN screenHeight \div 2 - paddleSize.y \div 2
                            ELSE predictedY'
                 n == normaliseVersor(0, targetY - rightPaddle.y)
             IN  rightPaddle'.vx = n.x /\ rightPaddle'.vy = n.y
      ]_vars

\* the ball came off the left paddle in the last frame and heads RIGHT
PredictionRenewedOnFlip ==
    /\ pc = "readInput" /\ last.left /\ last.resets = 0
    /\ ball.vx = RIGHT * VS /\ lastFrameBallDirX = RIGHT

\* C10: ball.versor.x is exactly -1 or +1 in every state, never 0.
BallDirXUnit == ball.vx = LEFT * VS \/ ball.vx = RIGHT * VS

\* the ball heads LEFT, off the right paddle
BallHeadsLeft == ball.vx = LEFT * VS /\ last.right

====
